---------------------------- MODULE Spec2Model ----------------------------
(***************************************************************************)
(* The storage-manager plugin of zenoh                                     *)
(* (plugins/zenoh-plugin-storage-manager/src/lib.rs): the runtime state    *)
(* StorageRuntimeInner {volumes, storages}, the operations new, update,    *)
(* kill_volume, spawn_volume, loaded_backend_from_lib, kill_storage,       *)
(* spawn_storage, the drop of a VolumeHandle, and adminspace_getter, all   *)
(* running under the Mutex of StorageRuntime, next to the storage workers  *)
(* they talk to through channels.                                          *)
(***************************************************************************)
EXTENDS Integers, Sequences, FiniteSets, TLC

\* ------------------------------------------------------------------ bounds

\* number of diffs applied in one run, over new and every call of config_checker
MaxDiffs == 4
\* capacity of the channel between the runtime and one storage worker
ChanCap == 1

\* ----------------------------------------------------------- configuration

MEMORY_BACKEND_NAME == "memory"
BACKEND_LIB_PREFIX == "zbackend_"

VolumeNames == {MEMORY_BACKEND_NAME, "v1"}
StorageNames == {"s1", "s2"}

\* VolumeConfig {name, backend, paths, required}; paths = <<>> stands for None
VolumeConfigs ==
  { [name |-> MEMORY_BACKEND_NAME, backend |-> "none", paths |-> <<>>, required |-> FALSE],
    [name |-> "v1", backend |-> "ok", paths |-> <<>>, required |-> FALSE],
    [name |-> "v1", backend |-> "missing", paths |-> <<>>, required |-> FALSE],
    [name |-> "v1", backend |-> "missing", paths |-> <<>>, required |-> TRUE],
    [name |-> "v1", backend |-> "nosym", paths |-> <<>>, required |-> FALSE],
    [name |-> "v1", backend |-> "err", paths |-> <<>>, required |-> FALSE],
    [name |-> "v1", backend |-> "none", paths |-> <<"p_none", "p_ok">>, required |-> FALSE],
    [name |-> "v1", backend |-> "none", paths |-> <<"p_none">>, required |-> FALSE],
    [name |-> "v1", backend |-> "none", paths |-> <<"p_err", "p_ok">>, required |-> FALSE] }

\* StorageConfig {name, volume_id}
StorageConfigs == [name : StorageNames, volume_id : VolumeNames]

\* ConfigDiff: a tagged variant over the four operations
AddVolume(c) == [kind |-> "AddVolume", volume |-> c.name, name |-> "", config |-> c]
DeleteVolume(c) == [kind |-> "DeleteVolume", volume |-> c.name, name |-> "", config |-> <<>>]
AddStorage(c) == [kind |-> "AddStorage", volume |-> c.volume_id, name |-> c.name, config |-> <<>>]
DeleteStorage(c) == [kind |-> "DeleteStorage", volume |-> c.volume_id, name |-> c.name, config |-> <<>>]
NoDiff == [kind |-> "none", volume |-> "", name |-> "", config |-> <<>>]

\* ------------------------------------------------------------------- maps

Insert(map, k, v) == [x \in DOMAIN map \cup {k} |-> IF x = k THEN v ELSE map[x]]
Remove(map, k) == [x \in DOMAIN map \ {k} |-> map[x]]
EmptyMap == <<>>

\* ------------------------------------------------------------------ state

VARIABLES
  pc,        \* where the thread that owns the runtime is; the Mutex is held unless "idle"
  caller,    \* who runs update: "new" or "config_checker"
  todo,      \* number of diffs the iterator given to update still yields
  taken,     \* number of diffs of the iterator that update has applied with success
  diff,      \* the diff update took last
  result,    \* the result of the operation applied last: "Ok" or the error
  volumes,   \* StorageRuntimeInner.volumes: volume name -> VolumeHandle (its index in handles)
  storages,  \* StorageRuntimeInner.storages: volume name -> storage name -> Sender (its worker)
  handles,   \* every VolumeHandle created so far
  workers,   \* every storage worker started so far
  kvPending, \* kill_volume: the Senders taken out of storages that Stop is still to be sent on
  selector,  \* adminspace_getter: the key selector of the query
  responses, \* adminspace_getter: the responses pushed so far
  qtodo,     \* adminspace_getter: the (volume, storage) entries the loops have not visited yet
  qwait,     \* adminspace_getter: the worker whose reply rx.recv() awaits, 0 when none
  left,      \* number of diffs the run may still apply
  plan,      \* the batches config_checker is yet to be called with when the configuration
             \* goes from A to B and back: <<diffs(A, B), diffs(B, A)>>, <<>> otherwise
  base,      \* the names registered when the configuration left A, {} when it did not
  reply      \* the reply channel of the GetStatus in flight: "none", "open", "held", "payload" or "closed"

vars == <<pc, caller, todo, taken, diff, result, volumes, storages, handles, workers, kvPending,
          selector, responses, qtodo, qwait, reply, left, plan, base>>
rtVars == <<volumes, storages, handles>>
updVars == <<caller, todo, taken, diff, result, kvPending>>
qVars == <<selector, responses, qtodo, qwait, reply>>
tripVars == <<plan, base>>


\* ------------------------------------------------- the backend libraries

\* LibLoader::load_file(path): the files that load as a dynamic library
Libraries == {"p_ok", "p_nosym", "p_err"}
load_file(path) == path \in Libraries

\* LibLoader::search_and_load(filename): the library found on the search
\* directories for that file name, "none" when there is none
search_and_load(filename) ==
  CASE filename = BACKEND_LIB_PREFIX \o "ok" -> "p_ok"
    [] filename = BACKEND_LIB_PREFIX \o "nosym" -> "p_nosym"
    [] filename = BACKEND_LIB_PREFIX \o "err" -> "p_err"
    [] OTHER -> "none"

\* lib.get::<CreateBackend>(CREATE_BACKEND_FN_NAME) is Ok
lib_get(lib) == lib # "p_nosym"

\* create_backend(config) of the library is Ok
create_backend(lib) == lib # "p_err"

\* create_memory_backend(config) is Ok
create_memory_backend(config) == TRUE

\* VolumeConfig::backend_search_method
backend_search_method(config) ==
  IF config.paths # <<>> THEN "ByPaths" ELSE "ByName"

\* ------------------------------------------------------------ VolumeHandle

\* VolumeHandle::new(backend, lib, lib_path); id is the instance's index in handles
VolumeHandle_new(id, lib, lib_path) == [id |-> id, lib |-> lib, lib_path |-> lib_path]

\* the instance's record in handles: the stopper flag, the backend instance, the library
NewInstance(lib) == [stopper |-> TRUE, backend |-> TRUE, lib |-> IF lib = "none" THEN "none" ELSE "loaded"]

\* Drop for VolumeHandle, fn drop: the stopper is stored false
VolumeHandle_drop(h) == [h EXCEPT !.stopper = FALSE]

\* the fields of VolumeHandle dropped with _lib declared before backend
drop_field_lib_first(h) ==
  IF h.lib = "loaded" THEN [h EXCEPT !.lib = "unloaded"] ELSE [h EXCEPT !.backend = FALSE]

\* after fn drop the fields of VolumeHandle are dropped one by one in the order of
\* their declaration: backend: Box<dyn Backend>, then _lib: Option<Library>
drop_field(h) ==
  IF h.backend THEN [h EXCEPT !.backend = FALSE] ELSE [h EXCEPT !.lib = "unloaded"]

\* fn drop has run on the instance and a field of it is still to be dropped
dropping(h) == ~h.stopper /\ (h.backend \/ h.lib = "loaded")

\* hs with the instances of ids dropped
DropInstances(hs, ids) ==
  [i \in DOMAIN hs |-> IF i \in ids THEN VolumeHandle_drop(hs[i]) ELSE hs[i]]

\* ------------------------------------------------------------ spawn_volume

\* self.volumes.insert(volume_id, handle): an entry of that name is replaced
volumes_insert(vols, volume_id, handle) == Insert(vols, volume_id, handle)

\* loaded_backend_from_lib(volume_id, config, lib, lib_path)
loaded_backend_from_lib(vols, volume_id, lib, id) ==
  IF lib_get(lib)
  THEN IF create_backend(lib)
       THEN [volumes |-> volumes_insert(vols, volume_id, VolumeHandle_new(id, lib, lib)),
             result |-> "Ok"]
       ELSE [volumes |-> vols, result |-> "Failed to load Backend"]
  ELSE [volumes |-> vols, result |-> "function not found in lib"]

\* the loop of spawn_volume over the paths of ByPaths, and the bail! after it
RECURSIVE by_paths(_, _, _, _)
by_paths(vols, volume_id, paths, id) ==
  IF paths = <<>>
  THEN [volumes |-> vols, result |-> "Failed to find a suitable library from paths"]
  ELSE IF load_file(Head(paths))
       THEN LET r == loaded_backend_from_lib(vols, volume_id, Head(paths), id)
            IN  IF r.result # "Ok"
                THEN r
                ELSE [volumes |-> r.volumes,
                      result |-> "Failed to find a suitable library from paths"]
       ELSE by_paths(vols, volume_id, Tail(paths), id)

\* spawn_volume binding the volume to the memory backend when no library is found
\* for the name of its backend
spawn_volume_falls_back(vols, config, id) ==
  IF config.name = MEMORY_BACKEND_NAME
  THEN [volumes |-> volumes_insert(vols, config.name,
                                   VolumeHandle_new(id, "none", "<static-memory>")),
        result |-> "Ok"]
  ELSE IF backend_search_method(config) = "ByPaths"
       THEN by_paths(vols, config.name, config.paths, id)
       ELSE LET lib == search_and_load(BACKEND_LIB_PREFIX \o config.backend)
            IN  IF lib # "none"
                THEN loaded_backend_from_lib(vols, config.name, lib, id)
                ELSE [volumes |-> volumes_insert(vols, config.name,
                                   VolumeHandle_new(id, "none", "<static-memory>")),
                      result |-> "Ok"]

\* spawn_volume(config): the volumes map and the result it leaves
spawn_volume(vols, config, id) ==
  IF config.name = MEMORY_BACKEND_NAME
  THEN IF create_memory_backend(config)
       THEN [volumes |-> volumes_insert(vols, config.name,
                                        VolumeHandle_new(id, "none", "<static-memory>")),
             result |-> "Ok"]
       ELSE [volumes |-> vols, result |-> "memory backend error"]
  ELSE IF backend_search_method(config) = "ByPaths"
       THEN by_paths(vols, config.name, config.paths, id)
       ELSE LET lib == search_and_load(BACKEND_LIB_PREFIX \o config.backend)
            IN  IF lib # "none"
                THEN loaded_backend_from_lib(vols, config.name, lib, id)
                ELSE [volumes |-> vols,
                      result |-> "Failed to find a suitable library (was looking for <lib>"
                                 \o BACKEND_LIB_PREFIX \o config.backend \o ")"]

\* the handles after spawn_volume turned vols into new: the instance of a handle that
\* was replaced is dropped, the new instance is added
HandlesAfterSpawn(hs, vols, new, name) ==
  IF new = vols
  THEN hs
  ELSE LET old == IF name \in DOMAIN vols THEN {vols[name].id} ELSE {}
       IN  Append(DropInstances(hs, old), NewInstance(new[name].lib))


\* ---------------------------------------------------------------- storages

Registered(stor, volume, name) == volume \in DOMAIN stor /\ name \in DOMAIN stor[volume]

\* the Senders held in the storages map
Senders(stor) == UNION {{stor[v][s] : s \in DOMAIN stor[v]} : v \in DOMAIN stor}

\* a storage worker as create_and_start_storage starts it on the backend of handle
\* instance `backend`; chan is the channel whose Sender is returned
NewWorker(volume, name, backend) ==
  [volume |-> volume, name |-> name, backend |-> backend, chan |-> <<>>,
   running |-> TRUE, stopSent |-> FALSE]

\* sender.send(msg).await can complete: the channel has room, or it is closed
\* because the worker, and with it the Receiver, is gone
can_send(ws, w) == ~ws[w].running \/ Len(ws[w].chan) < ChanCap

\* the workers after sender.send(msg).await on the Sender of worker w
send(ws, w, msg) ==
  [ws EXCEPT ![w] = [@ EXCEPT !.chan = IF ws[w].running THEN Append(@, msg) ELSE @,
                              !.stopSent = @ \/ msg = "Stop"]]

\* kill_storage: the Senders it sends Stop on
kill_storage_senders(stor, config) ==
  IF Registered(stor, config.volume_id, config.name)
  THEN {stor[config.volume_id][config.name]}
  ELSE {}

\* kill_storage: the storages map it leaves
kill_storage(stor, config) == stor

\* spawn_storage: self.storages.entry(volume_id).or_default().insert(storage_name, stopper)
spawn_storage_insert(stor, volume_id, storage_name, stopper) ==
  Insert(stor, volume_id,
         Insert(IF volume_id \in DOMAIN stor THEN stor[volume_id] ELSE EmptyMap,
                storage_name, stopper))

\* spawn_storage: the volume is looked up in self.volumes
spawn_storage_finds(vols, volume_id) == volume_id \in DOMAIN vols

\* spawn_storage creating the volume's entry in storages before the worker is started
spawn_storage_entry_first(vols, stor, config, stopper) ==
  IF spawn_storage_finds(vols, config.volume_id)
  THEN LET entry == IF config.volume_id \in DOMAIN stor
                    THEN stor[config.volume_id] ELSE EmptyMap
       IN  IF stopper = 0
           THEN [storages |-> Insert(stor, config.volume_id, entry),
                 result |-> "worker start error"]
           ELSE [storages |-> Insert(stor, config.volume_id,
                                     Insert(entry, config.name, stopper)),
                 result |-> "Ok"]
  ELSE [storages |-> stor, result |-> "volume not found"]

\* spawn_storage(storage): the storages map and the result it leaves; stopper is the
\* Sender create_and_start_storage returned, 0 when it returned an error
spawn_storage(vols, stor, config, stopper) ==
  IF spawn_storage_finds(vols, config.volume_id)
  THEN IF stopper = 0
       THEN [storages |-> stor, result |-> "worker start error"]
       ELSE [storages |-> spawn_storage_insert(stor, config.volume_id, config.name, stopper),
             result |-> "Ok"]
  ELSE [storages |-> stor, result |-> "volume not found"]

\* kill_volume without the removal of the volume's entry from storages
kill_volume_remove_kept(stor, name) == stor

\* kill_volume: self.storages.remove(&volume.name)
kill_volume_remove(stor, name) == Remove(stor, name)

\* kill_volume sending Stop to none of the storages taken out
kill_volume_senders_none(stor, name) == {}

\* kill_volume: the Senders of the entry taken out of storages
kill_volume_senders(stor, name) ==
  IF name \in DOMAIN stor THEN {stor[name][s] : s \in DOMAIN stor[name]} ELSE {}

\* kill_volume: self.volumes.remove(&volume.name)
kill_volume_volumes(vols, name) == Remove(vols, name)

\* ------------------------------------------------ the drop of a VolumeHandle

\* the thread that owns the runtime is inside the drop of a VolumeHandle
Dropping == \E i \in DOMAIN handles : dropping(handles[i])

\* the drop of a VolumeHandle goes on with the next field
DropField(i) ==
  /\ dropping(handles[i])
  /\ handles' = [handles EXCEPT ![i] = drop_field(@)]
  /\ UNCHANGED <<pc, volumes, storages, workers, left>>
  /\ UNCHANGED updVars
  /\ UNCHANGED qVars
  /\ UNCHANGED tripVars


\* ------------------------------------------------------------------- Init

Init ==
  /\ pc = "new"
  /\ caller = "new"
  /\ todo = 0
  /\ taken = 0
  /\ diff = NoDiff
  /\ result = "Ok"
  /\ volumes = EmptyMap
  /\ storages = EmptyMap
  /\ handles = <<>>
  /\ workers = <<>>
  /\ kvPending = {}
  /\ selector = "**"
  /\ responses = {}
  /\ qtodo = {}
  /\ qwait = 0
  /\ reply = "none"
  /\ left = MaxDiffs
  /\ plan = <<>>
  /\ base = {}

\* --------------------------------------------------------- new and update

MemoryConfig ==
  [name |-> MEMORY_BACKEND_NAME, backend |-> "none", paths |-> <<>>, required |-> FALSE]

\* where update's error goes: new drops the runtime it was building, config_checker
\* releases the lock and returns the error
AfterError == IF caller = "new" THEN "new_failed" ELSE "idle"

\* update going on with the next diff whatever the result of the last one
update_step_goes_on(n, k, res) == [pc |-> "update", todo |-> n - 1, taken |-> k + 1]

\* the loop of update after a diff with result res, n diffs being left with it and k
\* applied before it: Ok goes on with the next diff, an error returns through `?`
update_step(n, k, res) ==
  IF res = "Ok"
  THEN [pc |-> "update", todo |-> n - 1, taken |-> k + 1]
  ELSE [pc |-> AfterError, todo |-> n - 1, taken |-> k]

\* new, up to its call of update: the memory volume is spawned, then update is given
\* the AddVolume diffs of the configuration followed by its AddStorage diffs
New ==
  /\ pc = "new"
  /\ LET r == spawn_volume(volumes, MemoryConfig, Len(handles) + 1)
     IN  /\ volumes' = r.volumes
         /\ handles' = HandlesAfterSpawn(handles, volumes, r.volumes, MEMORY_BACKEND_NAME)
         /\ result' = r.result
         /\ pc' = IF r.result = "Ok" THEN "update" ELSE "new_failed"
  /\ \E n \in 0..left : todo' = n
  /\ UNCHANGED <<caller, taken, diff, storages, workers, kvPending>>
  /\ UNCHANGED qVars
  /\ UNCHANGED left
  /\ UNCHANGED tripVars

\* new returns the error of spawn_volume or update: the runtime under construction is
\* dropped, with its VolumeHandles and Senders
NewFailed ==
  /\ ~Dropping
  /\ pc = "new_failed"
  /\ pc' = "failed"
  /\ volumes' = EmptyMap
  /\ storages' = EmptyMap
  /\ handles' = DropInstances(handles, {volumes[v].id : v \in DOMAIN volumes})
  /\ UNCHANGED <<workers>>
  /\ UNCHANGED updVars
  /\ UNCHANGED qVars
  /\ UNCHANGED left
  /\ UNCHANGED tripVars

\* ------------------------------------------------------------- hot reload

\* the VolumeConfig of a volume that loads: by name, from the library zbackend_ok
LoadingVolume(name) == [name |-> name, backend |-> "ok", paths |-> <<>>, required |-> FALSE]

\* PluginConfig {volumes, storages}: the volumes it lists, by name, next to the memory
\* volume, and the storages on them
PluginConfigs ==
  {c \in [volumes : SUBSET (VolumeNames \ {MEMORY_BACKEND_NAME}),
          storages : SUBSET StorageConfigs] :
     \A st \in c.storages : st.volume_id \in c.volumes \cup {MEMORY_BACKEND_NAME}}

\* the names registered in the runtime state
Names(vols, stor) ==
  [volumes |-> DOMAIN vols,
   storages |-> {c \in StorageConfigs : Registered(stor, c.volume_id, c.name)}]

\* the configuration the runtime state is equivalent to
ConfigOf(vols, stor) ==
  [volumes |-> Names(vols, stor).volumes \ {MEMORY_BACKEND_NAME},
   storages |-> Names(vols, stor).storages]

\* the elements of S one after the other
RECURSIVE SetToSeq(_)
SetToSeq(S) ==
  IF S = {} THEN <<>>
  ELSE LET x == CHOOSE y \in S : TRUE IN <<x>> \o SetToSeq(S \ {x})

RECURSIVE DiffsOf(_, _)
DiffsOf(kind, q) ==
  IF q = <<>> THEN <<>>
  ELSE <<CASE kind = "DeleteVolume" -> DeleteVolume(LoadingVolume(Head(q)))
           [] kind = "DeleteStorage" -> DeleteStorage(Head(q))
           [] kind = "AddVolume" -> AddVolume(LoadingVolume(Head(q)))
           [] kind = "AddStorage" -> AddStorage(Head(q))>> \o DiffsOf(kind, Tail(q))

\* ConfigDiff::diffs(old, new): what old lists and new does not is deleted, what new
\* lists and old does not is added
diffs(old, new) ==
  DiffsOf("DeleteVolume", SetToSeq(old.volumes \ new.volumes))
  \o DiffsOf("DeleteStorage", SetToSeq(old.storages \ new.storages))
  \o DiffsOf("AddVolume", SetToSeq(new.volumes \ old.volumes))
  \o DiffsOf("AddStorage", SetToSeq(new.storages \ old.storages))

\* the configuration the runtime was built from is changed to B and then back: the
\* closure of config_checker will be called with (A, B), then with (B, A)
Reconfigure(B) ==
  /\ ~Dropping
  /\ pc = "idle" /\ caller = "new"
  /\ plan = <<>> /\ base = {}
  /\ LET A == ConfigOf(volumes, storages)
     IN  /\ B # A
         /\ Len(diffs(A, B)) + Len(diffs(B, A)) <= left
         /\ plan' = <<diffs(A, B), diffs(B, A)>>
  /\ base' = {Names(volumes, storages)}
  /\ UNCHANGED <<pc, workers, left>>
  /\ UNCHANGED rtVars
  /\ UNCHANGED updVars
  /\ UNCHANGED qVars

\* a lock that config_checker holds for one diff only: it is granted between two diffs
\* of a running batch as well
zlock_between_diffs(p, c) == p = "idle" \/ (p = "update" /\ c = "config_checker")

\* zlock!(runtime) of config_checker and self.0.lock() of adminspace_getter return the
\* guard: the Mutex is free, no call on the runtime is at position p for caller c
zlock(p, c) == p = "idle"

\* config_checker: the lock is taken and update is called with the diffs
ConfigChecker ==
  /\ ~Dropping
  /\ zlock(pc, caller)
  /\ pc' = "update"
  /\ caller' = "config_checker"
  /\ \E n \in 0..left : todo' = n /\ (plan # <<>> => n = Len(Head(plan)))
  /\ plan' = plan
  /\ base' = IF plan = <<>> THEN {} ELSE base
  /\ taken' = 0
  /\ diff' = NoDiff
  /\ result' = "Ok"
  /\ UNCHANGED <<kvPending, workers, left>>
  /\ UNCHANGED rtVars
  /\ UNCHANGED qVars

\* the diffs the iterator yields: new hands update every AddVolume before the first
\* AddStorage, config_checker hands it the diffs of the two configurations
Yields(d) ==
  /\ caller = "new" =>
       /\ d.kind \in {"AddVolume", "AddStorage"}
       /\ d.kind = "AddVolume" => diff.kind # "AddStorage"
  /\ plan # <<>> => d = Head(Head(plan))

\* the batches left once a diff of the first of them had result res
plan_step(pl, res) ==
  IF pl = <<>> \/ res # "Ok" THEN <<>> ELSE <<Tail(Head(pl))>> \o Tail(pl)

\* the names kept for the way back: dropped when a batch fails
base_step(b, res) == IF res # "Ok" THEN {} ELSE b

\* update: the next diff is AddVolume
UpdateAddVolume(c) ==
  /\ ~Dropping
  /\ pc = "update" /\ todo > 0 /\ Yields(AddVolume(c))
  /\ LET r == spawn_volume(volumes, c, Len(handles) + 1)
     IN  /\ volumes' = r.volumes
         /\ handles' = HandlesAfterSpawn(handles, volumes, r.volumes, c.name)
         /\ result' = r.result
         /\ pc' = update_step(todo, taken, r.result).pc
         /\ todo' = update_step(todo, taken, r.result).todo
         /\ taken' = update_step(todo, taken, r.result).taken
  /\ diff' = AddVolume(c)
  /\ UNCHANGED <<caller, storages, workers, kvPending>>
  /\ UNCHANGED qVars
  /\ left' = left - 1
  /\ plan' = plan_step(plan, result')
  /\ base' = base_step(base, result')

\* update: the next diff is AddStorage and spawn_storage returns Ok
UpdateAddStorage(c) ==
  /\ ~Dropping
  /\ pc = "update" /\ todo > 0 /\ Yields(AddStorage(c))
  /\ spawn_storage_finds(volumes, c.volume_id)
  /\ workers' = Append(workers, NewWorker(c.volume_id, c.name, volumes[c.volume_id].id))
  /\ LET r == spawn_storage(volumes, storages, c, Len(workers) + 1)
     IN  /\ storages' = r.storages
         /\ result' = r.result
         /\ pc' = update_step(todo, taken, r.result).pc
         /\ todo' = update_step(todo, taken, r.result).todo
         /\ taken' = update_step(todo, taken, r.result).taken
  /\ diff' = AddStorage(c)
  /\ UNCHANGED <<caller, volumes, handles, kvPending>>
  /\ UNCHANGED qVars
  /\ left' = left - 1
  /\ plan' = plan_step(plan, result')
  /\ base' = base_step(base, result')

\* update: the next diff is AddStorage and spawn_storage returns an error: the volume
\* is not found, or create_and_start_storage fails
UpdateAddStorageErr(c) ==
  /\ ~Dropping
  /\ pc = "update" /\ todo > 0 /\ Yields(AddStorage(c))
  /\ LET r == spawn_storage(volumes, storages, c, 0)
     IN  /\ storages' = r.storages
         /\ result' = r.result
         /\ pc' = update_step(todo, taken, r.result).pc
         /\ todo' = update_step(todo, taken, r.result).todo
         /\ taken' = update_step(todo, taken, r.result).taken
  /\ diff' = AddStorage(c)
  /\ UNCHANGED <<caller, workers, kvPending>>
  /\ UNCHANGED <<volumes, handles>>
  /\ UNCHANGED qVars
  /\ left' = left - 1
  /\ plan' = plan_step(plan, result')
  /\ base' = base_step(base, result')

\* update: the next diff is DeleteStorage
UpdateDeleteStorage(c) ==
  /\ ~Dropping
  /\ pc = "update" /\ todo > 0 /\ Yields(DeleteStorage(c))
  /\ LET to == kill_storage_senders(storages, c)
     IN  /\ \A w \in to : can_send(workers, w)
         /\ workers' = IF to = {} THEN workers
                       ELSE send(workers, CHOOSE w \in to : TRUE, "Stop")
  /\ storages' = kill_storage(storages, c)
  /\ result' = "Ok"
  /\ todo' = todo - 1
  /\ taken' = taken + 1
  /\ diff' = DeleteStorage(c)
  /\ UNCHANGED <<pc, caller, volumes, handles, kvPending>>
  /\ UNCHANGED qVars
  /\ left' = left - 1
  /\ plan' = plan_step(plan, result')
  /\ base' = base_step(base, result')

\* update: the next diff is DeleteVolume; kill_volume takes the volume's entry out of
\* storages
UpdateDeleteVolume(c) ==
  /\ ~Dropping
  /\ pc = "update" /\ todo > 0 /\ Yields(DeleteVolume(c))
  /\ storages' = kill_volume_remove(storages, c.name)
  /\ kvPending' = kill_volume_senders(storages, c.name)
  /\ pc' = "kill_volume"
  /\ todo' = todo - 1
  /\ taken' = taken + 1
  /\ diff' = DeleteVolume(c)
  /\ UNCHANGED <<caller, result, volumes, handles, workers>>
  /\ UNCHANGED qVars
  /\ left' = left - 1
  /\ plan' = plan_step(plan, result)
  /\ base' = base

\* kill_volume: one of the sends of Stop that join_all awaits completes
KillVolumeStop(w) ==
  /\ ~Dropping
  /\ pc = "kill_volume"
  /\ w \in kvPending
  /\ can_send(workers, w)
  /\ workers' = send(workers, w, "Stop")
  /\ kvPending' = kvPending \ {w}
  /\ UNCHANGED <<pc, caller, todo, taken, diff, result>>
  /\ UNCHANGED rtVars
  /\ UNCHANGED qVars
  /\ UNCHANGED left
  /\ UNCHANGED tripVars

\* kill_volume: every send has completed; the VolumeHandle is taken out of volumes
\* and dropped
KillVolumeDrop ==
  /\ ~Dropping
  /\ pc = "kill_volume"
  /\ kvPending = {}
  /\ volumes' = kill_volume_volumes(volumes, diff.volume)
  /\ handles' = DropInstances(handles, {volumes[v].id : v \in DOMAIN volumes \cap {diff.volume}})
  /\ result' = "Ok"
  /\ pc' = "update"
  /\ UNCHANGED <<caller, todo, taken, diff, storages, workers, kvPending>>
  /\ UNCHANGED qVars
  /\ UNCHANGED left
  /\ UNCHANGED tripVars

\* update has applied every diff: Ok(()); new returns the runtime, config_checker
\* releases the lock
UpdateReturn ==
  /\ ~Dropping
  /\ pc = "update" /\ todo = 0
  /\ pc' = "idle"
  /\ taken' = 0
  /\ diff' = NoDiff
  /\ result' = "Ok"
  /\ UNCHANGED <<caller, todo, kvPending, workers>>
  /\ UNCHANGED rtVars
  /\ UNCHANGED qVars
  /\ UNCHANGED left
  /\ plan' = IF plan = <<>> THEN plan ELSE Tail(plan)
  /\ base' = base


\* --------------------------------------------------------- storage workers

\* the worker takes Stop off its channel and terminates: the Receiver is dropped with
\* the messages still queued, the reply channel of a queued GetStatus among them
WorkerStop(w) ==
  /\ workers[w].running
  /\ workers[w].chan # <<>> /\ Head(workers[w].chan) = "Stop"
  /\ workers' = [workers EXCEPT ![w] = [@ EXCEPT !.running = FALSE, !.chan = <<>>]]
  /\ reply' = IF qwait = w /\ reply = "open" THEN "closed" ELSE reply
  /\ UNCHANGED <<pc, selector, responses, qtodo, qwait>>
  /\ UNCHANGED rtVars
  /\ UNCHANGED updVars
  /\ UNCHANGED left
  /\ UNCHANGED tripVars

\* the worker takes GetStatus(tx) off its channel and sends its status on tx
WorkerStatus(w) ==
  /\ workers[w].running
  /\ workers[w].chan # <<>> /\ Head(workers[w].chan) = "GetStatus"
  /\ workers' = [workers EXCEPT ![w] = [@ EXCEPT !.chan = Tail(@)]]
  /\ reply' = "payload"
  /\ UNCHANGED <<pc, selector, responses, qtodo, qwait>>
  /\ UNCHANGED rtVars
  /\ UNCHANGED updVars
  /\ UNCHANGED left
  /\ UNCHANGED tripVars

\* the worker takes GetStatus(tx) off its channel and drops tx without sending
WorkerNoStatus(w) ==
  /\ workers[w].running
  /\ workers[w].chan # <<>> /\ Head(workers[w].chan) = "GetStatus"
  /\ workers' = [workers EXCEPT ![w] = [@ EXCEPT !.chan = Tail(@)]]
  /\ reply' = "closed"
  /\ UNCHANGED <<pc, selector, responses, qtodo, qwait>>
  /\ UNCHANGED rtVars
  /\ UNCHANGED updVars
  /\ UNCHANGED left
  /\ UNCHANGED tripVars

\* the worker takes GetStatus(tx) off its channel and keeps tx without ever sending
WorkerSilent(w) ==
  /\ workers[w].running
  /\ workers[w].chan # <<>> /\ Head(workers[w].chan) = "GetStatus"
  /\ workers' = [workers EXCEPT ![w] = [@ EXCEPT !.chan = Tail(@)]]
  /\ reply' = "held"
  /\ UNCHANGED <<pc, selector, responses, qtodo, qwait>>
  /\ UNCHANGED rtVars
  /\ UNCHANGED updVars
  /\ UNCHANGED left
  /\ UNCHANGED tripVars

\* -------------------------------------------------------- adminspace_getter

Selectors == {"**", "/storages/s1", "/volumes/memory"}

\* zenoh::utils::key_expr::intersect(key, key_selector)
intersect(key, key_selector) == key_selector = "**" \/ key_selector = key

Response(key, value, from) == [key |-> key, value |-> value, from |-> from]

\* the response for /version
version_responses(sel) ==
  IF intersect("/version", sel) THEN {Response("/version", "GIT_VERSION", 0)} ELSE {}

\* the loop over guard.volumes pushing the library path under the key of the volume,
\* the suffix /__path__ left out
volume_responses_one_key(vols, sel) ==
  {Response("/volumes/" \o v, vols[v].lib_path, 0) :
     v \in {x \in DOMAIN vols : intersect("/volumes/" \o x, sel)}}
  \cup
  {Response("/volumes/" \o v, "admin_status", 0) :
     v \in {x \in DOMAIN vols : intersect("/volumes/" \o x, sel)}}

\* the responses of the loop over guard.volumes
volume_responses(vols, sel) ==
  {Response("/volumes/" \o v \o "/__path__", vols[v].lib_path, 0) :
     v \in {x \in DOMAIN vols : intersect("/volumes/" \o x \o "/__path__", sel)}}
  \cup
  {Response("/volumes/" \o v, "admin_status", 0) :
     v \in {x \in DOMAIN vols : intersect("/volumes/" \o x, sel)}}

\* the entries the loops over guard.storages visit
storage_entries(stor) == {<<v, s>> : v \in DOMAIN stor, s \in StorageNames} \cap
                         {e \in VolumeNames \X StorageNames : Registered(stor, e[1], e[2])}

\* rx.recv() pushing a response whether or not a payload was received
recv_responses_always(key, r, w) == {Response(key, "status", w)}

\* what `if let Ok(value) = rx.recv()` pushes for the reply received
recv_responses(key, r, w) ==
  IF r = "payload" THEN {Response(key, "status", w)} ELSE {}

\* adminspace_getter up to the loop over the storages: the version and the volumes
\* are answered, the lock is taken in between
QueryStart(sel) ==
  /\ ~Dropping
  /\ zlock(pc, caller)
  /\ pc' = "query"
  /\ selector' = sel
  /\ responses' = version_responses(sel) \cup volume_responses(volumes, sel)
  /\ qtodo' = storage_entries(storages)
  /\ todo' = 0
  /\ taken' = 0
  /\ diff' = NoDiff
  /\ result' = "Ok"
  /\ UNCHANGED <<caller, kvPending>>
  /\ UNCHANGED <<qwait, reply, workers, left>>
  /\ UNCHANGED rtVars
  /\ UNCHANGED tripVars

\* the loop visits an entry whose key does not intersect the selector
QuerySkip(e) ==
  /\ ~Dropping
  /\ pc = "query"
  /\ e \in qtodo
  /\ ~intersect("/storages/" \o e[2], selector)
  /\ qtodo' = qtodo \ {e}
  /\ UNCHANGED <<pc, selector, responses, qwait, reply, workers>>
  /\ UNCHANGED rtVars
  /\ UNCHANGED updVars
  /\ UNCHANGED left
  /\ UNCHANGED tripVars

\* the loop visits an entry whose key intersects: GetStatus(tx) is sent on its Sender.
\* A send on a closed channel fails and drops tx with the message, so rx.recv()
\* returns Err at once
QuerySend(e) ==
  /\ ~Dropping
  /\ pc = "query"
  /\ e \in qtodo
  /\ intersect("/storages/" \o e[2], selector)
  /\ LET w == storages[e[1]][e[2]]
     IN  /\ can_send(workers, w)
         /\ workers' = send(workers, w, "GetStatus")
         /\ qwait' = w
         /\ reply' = IF workers[w].running THEN "open" ELSE "closed"
  /\ pc' = "recv"
  /\ qtodo' = qtodo \ {e}
  /\ UNCHANGED <<selector, responses>>
  /\ UNCHANGED rtVars
  /\ UNCHANGED updVars
  /\ UNCHANGED left
  /\ UNCHANGED tripVars

\* rx.recv().await returns: the payload is pushed, a closed channel pushes nothing
QueryRecv ==
  /\ ~Dropping
  /\ pc = "recv"
  /\ reply \in {"payload", "closed"}
  /\ responses' = responses \cup
                  recv_responses("/storages/" \o workers[qwait].name, reply, qwait)
  /\ pc' = "query"
  /\ qwait' = 0
  /\ reply' = "none"
  /\ UNCHANGED <<selector, qtodo, workers>>
  /\ UNCHANGED rtVars
  /\ UNCHANGED updVars
  /\ UNCHANGED left
  /\ UNCHANGED tripVars

\* the loops are over: the guard is dropped and the responses are returned
QueryReturn ==
  /\ ~Dropping
  /\ pc = "query"
  /\ qtodo = {}
  /\ pc' = "idle"
  /\ selector' = "**"
  /\ responses' = {}
  /\ UNCHANGED <<qtodo, qwait, reply, workers>>
  /\ UNCHANGED rtVars
  /\ UNCHANGED updVars
  /\ UNCHANGED left
  /\ UNCHANGED tripVars

\* ------------------------------------------------------------------- Next

Next ==
  \/ New
  \/ NewFailed
  \/ \E B \in PluginConfigs : Reconfigure(B)
  \/ ConfigChecker
  \/ \E c \in VolumeConfigs : UpdateAddVolume(c)
  \/ \E c \in StorageConfigs : UpdateAddStorage(c)
  \/ \E c \in StorageConfigs : UpdateAddStorageErr(c)
  \/ \E c \in StorageConfigs : UpdateDeleteStorage(c)
  \/ \E c \in VolumeConfigs : UpdateDeleteVolume(c)
  \/ \E w \in DOMAIN workers : KillVolumeStop(w)
  \/ KillVolumeDrop
  \/ \E i \in DOMAIN handles : DropField(i)
  \/ UpdateReturn
  \/ \E w \in DOMAIN workers : WorkerStop(w)
  \/ \E w \in DOMAIN workers : WorkerStatus(w)
  \/ \E w \in DOMAIN workers : WorkerNoStatus(w)
  \/ \E w \in DOMAIN workers : WorkerSilent(w)
  \/ \E sel \in Selectors : QueryStart(sel)
  \/ \E e \in VolumeNames \X StorageNames : QuerySkip(e)
  \/ \E e \in VolumeNames \X StorageNames : QuerySend(e)
  \/ QueryRecv
  \/ QueryReturn

Spec == Init /\ [][Next]_vars


\* the thread that owns the runtime runs on while a step of it is enabled, and so
\* does every storage worker with a message on its channel
Runtime ==
  \/ New
  \/ NewFailed
  \/ \E c \in VolumeConfigs : UpdateAddVolume(c)
  \/ \E c \in StorageConfigs : UpdateAddStorage(c)
  \/ \E c \in StorageConfigs : UpdateAddStorageErr(c)
  \/ \E c \in StorageConfigs : UpdateDeleteStorage(c)
  \/ \E c \in VolumeConfigs : UpdateDeleteVolume(c)
  \/ \E w \in DOMAIN workers : KillVolumeStop(w)
  \/ KillVolumeDrop
  \/ \E i \in DOMAIN handles : DropField(i)
  \/ UpdateReturn
  \/ \E e \in VolumeNames \X StorageNames : QuerySkip(e)
  \/ \E e \in VolumeNames \X StorageNames : QuerySend(e)
  \/ QueryRecv
  \/ QueryReturn

Worker(w) ==
  /\ w \in DOMAIN workers
  /\ (WorkerStop(w) \/ WorkerStatus(w) \/ WorkerNoStatus(w) \/ WorkerSilent(w))

FairSpec ==
  /\ Spec
  /\ WF_vars(Runtime)
  /\ \A w \in 1..(MaxDiffs + 1) : WF_vars(Worker(w))

\* ------------------------------------------------------------ properties

\* the step applies a diff of that kind
Applies(kind) == pc = "update" /\ left' = left - 1 /\ diff'.kind = kind

\* the worker whose Sender is registered under (volume, name)
SenderOf(volume, name) == storages[volume][name]

\* C1: every volume name that is a key of the storages map is a key of the volumes
\* map, in every state reached by diffs applied through update
C1_StorageVolumePresent == DOMAIN storages \subseteq DOMAIN volumes

\* C1: kill_volume has been applied to a volume that hosted a storage while another
\* volume still hosts one
C1_Witness ==
  /\ pc = "update" /\ diff.kind = "DeleteVolume"
  /\ \E w \in DOMAIN workers : workers[w].volume = diff.volume
  /\ DOMAIN storages # {}

\* C2: spawn_volume for a volume name that is registered fails and leaves the
\* registered VolumeHandle in place
C2_AddVolumeRegisteredFails ==
  [][(Applies("AddVolume") /\ diff'.volume \in DOMAIN volumes)
       => (result' # "Ok" /\ volumes' = volumes /\ handles' = handles)]_vars

\* C3: every registered Sender belongs to a worker started on the VolumeHandle
\* instance now registered for its volume, and that instance has not been dropped
C3_StorageOnRegisteredHandle ==
  \A v \in DOMAIN storages : \A s \in DOMAIN storages[v] :
    /\ v \in DOMAIN volumes
    /\ workers[SenderOf(v, s)].backend = volumes[v].id
    /\ handles[workers[SenderOf(v, s)].backend].stopper

\* C4: kill_storage on a registered storage sends Stop to its worker and leaves the
\* storage out of the storages map
C4_KillStorageRemovesEntry ==
  [][(Applies("DeleteStorage") /\ Registered(storages, diff'.volume, diff'.name))
       => (/\ workers'[SenderOf(diff'.volume, diff'.name)].stopSent
           /\ ~Registered(storages', diff'.volume, diff'.name))]_vars

\* C5: for each (volume, storage name) at most one worker has been started and not
\* yet been sent Stop
C5_OneLiveWorkerPerKey ==
  \A w1, w2 \in DOMAIN workers :
    (/\ workers[w1].volume = workers[w2].volume
     /\ workers[w1].name = workers[w2].name
     /\ ~workers[w1].stopSent
     /\ ~workers[w2].stopSent) => w1 = w2

\* C6: spawn_storage for a storage name registered under the volume fails and leaves
\* the registered Sender in place
C6_AddStorageRegisteredFails ==
  [][(Applies("AddStorage") /\ Registered(storages, diff'.volume, diff'.name))
       => (result' # "Ok" /\ storages' = storages)]_vars

\* C7: once new has registered the memory volume it stays registered, whatever diffs
\* are applied
C7_MemoryAlwaysRegistered ==
  pc \notin {"new", "failed"} => MEMORY_BACKEND_NAME \in DOMAIN volumes

\* C8: kill_volume takes every storage of the volume out of the storages map, sends
\* Stop to each of them, and only then drops the VolumeHandle; when it returns
\* neither the volume nor a Sender of its storages is in the runtime state
C8_KillVolumeStopsThenDrops ==
  [][/\ Applies("DeleteVolume") =>
          /\ pc' = "kill_volume"
          /\ diff'.volume \notin DOMAIN storages'
          /\ kvPending' = {w \in DOMAIN workers :
                             /\ Registered(storages, workers[w].volume, workers[w].name)
                             /\ SenderOf(workers[w].volume, workers[w].name) = w
                             /\ workers[w].volume = diff'.volume}
     /\ (pc = "kill_volume" /\ pc' = "kill_volume") =>
          /\ volumes' = volumes /\ handles' = handles /\ storages' = storages
          /\ \A w \in kvPending \ kvPending' : workers'[w].stopSent
     /\ (pc = "kill_volume" /\ pc' # "kill_volume") =>
          /\ kvPending = {}
          /\ diff.volume \notin DOMAIN volumes'
          /\ diff.volume \notin DOMAIN storages'
          /\ \A w \in Senders(storages') : workers[w].volume # diff.volume
    ]_vars

\* C8: kill_volume has returned for a volume that hosted two storages
C8_Witness ==
  /\ pc = "update" /\ diff.kind = "DeleteVolume"
  /\ diff.volume \notin DOMAIN volumes
  /\ Cardinality({w \in DOMAIN workers :
                    workers[w].volume = diff.volume /\ workers[w].stopSent}) >= 2

\* C9: adminspace_getter always returns and releases the lock, whatever the workers do
C9_QueryAlwaysReturns == (pc \in {"query", "recv"}) ~> (pc = "idle")

\* C10: a query never holds a response of a storage whose worker has stopped
C10_StoppedStorageNoStatus ==
  pc \in {"query", "recv"} =>
    \A r \in responses : r.from # 0 => workers[r.from].running

\* C10: a query whose selector matches has visited a registered storage whose worker
\* had been sent Stop and had stopped, and holds no response of it
C10_Witness ==
  /\ pc = "query" /\ qtodo = {}
  /\ \E v \in DOMAIN storages : \E s \in DOMAIN storages[v] :
       /\ intersect("/storages/" \o s, selector)
       /\ workers[SenderOf(v, s)].stopSent
       /\ ~workers[SenderOf(v, s)].running
       /\ \A r \in responses : r.from # SenderOf(v, s)

\* C11: while new applies the configuration, the load failure of a volume that is
\* not required does not fail construction: the volume is absent and update goes on
\* with the diffs that remain
C11_NonRequiredLoadFailureGoesOn ==
  [][(/\ caller = "new"
      /\ Applies("AddVolume")
      /\ ~diff'.config.required
      /\ result' # "Ok"
      /\ volumes' = volumes)
       => (pc' = "update" /\ todo' = todo - 1)]_vars

\* the first of the paths that loads as a library, "none" when none of them does
RECURSIVE first_loading(_)
first_loading(paths) ==
  IF paths = <<>> THEN "none"
  ELSE IF load_file(Head(paths)) THEN Head(paths) ELSE first_loading(Tail(paths))

\* C12: spawn_volume by paths registers the backend created from the first path that
\* loads and returns Ok; it returns the 'failed to find a suitable library' error,
\* and registers nothing, only when none of the paths loads
C12_ByPathsFirstLoadingPath ==
  [][(/\ Applies("AddVolume")
      /\ diff'.volume # MEMORY_BACKEND_NAME
      /\ backend_search_method(diff'.config) = "ByPaths")
       => LET p == first_loading(diff'.config.paths)
          IN  IF p = "none"
              THEN /\ result' = "Failed to find a suitable library from paths"
                   /\ volumes' = volumes
              ELSE (lib_get(p) /\ create_backend(p)) =>
                     /\ result' = "Ok"
                     /\ diff'.volume \in DOMAIN volumes'
                     /\ volumes'[diff'.volume].lib = p]_vars

\* C13: whenever spawn_storage fails, because the volume is not registered or because
\* the worker does not start, no Sender is inserted, the volumes map and the storages
\* map are as before, and the error returned is 'volume not found' or the error of
\* the worker start as it came
C13_SpawnStorageFailureLeavesMaps ==
  [][(Applies("AddStorage") /\ result' # "Ok")
       => (/\ volumes' = volumes
           /\ storages' = storages
           /\ handles' = handles
           /\ result' = IF diff'.volume \in DOMAIN volumes
                        THEN "worker start error"
                        ELSE "volume not found")]_vars

\* C13: the worker of a storage did not start on a registered volume that hosts no
\* storage, and update has returned the error
C13_Witness ==
  /\ pc = "idle"
  /\ diff.kind = "AddStorage"
  /\ result = "worker start error"
  /\ diff.volume \in DOMAIN volumes
  /\ diff.volume \notin DOMAIN storages
  /\ storages # EmptyMap

\* C14: update applies one diff at a time; when a diff fails update returns at once
\* with that error, the diffs left are not applied, and what the diffs before it
\* left in the volumes and storages maps is still there
C14_UpdateStopsAtFirstError ==
  [][/\ left' # left => (pc = "update" /\ todo > 0 /\ left' = left - 1 /\ todo' = todo - 1)
     /\ (pc = "update" /\ left' # left /\ result' = "Ok") =>
          (pc' \in {"update", "kill_volume"} /\ taken' = taken + 1)
     /\ (pc = "update" /\ left' # left /\ result' # "Ok") =>
          /\ pc' \in {"idle", "new_failed"}
          /\ taken' = taken
          /\ storages' = storages
          /\ DOMAIN volumes \subseteq DOMAIN volumes'
     /\ (pc \in {"idle", "new_failed"} /\ result # "Ok") =>
          (left' = left /\ (<<volumes, storages>>' # <<volumes, storages>> => pc' = "failed"))
    ]_vars

\* C14: a diff of a batch of config_checker has failed after a diff of the batch was
\* applied and with a diff of the batch left: update has returned the error
C14_Witness ==
  /\ pc = "idle" /\ caller = "config_checker"
  /\ result # "Ok"
  /\ taken >= 1 /\ todo >= 1
  /\ storages # EmptyMap

\* C15: batches and queries exclude each other on the runtime state: while a batch
\* of config_checker runs, the only steps on the runtime are the steps of that
\* batch, no other batch starts and no query reads the maps; while a query runs the
\* maps are not written; a query starts only when no call is in progress
C15_BatchesAndQueriesExclusive ==
  [][/\ (caller = "config_checker" /\ pc \in {"update", "kill_volume"}) =>
          /\ pc' \in {"update", "kill_volume", "idle"}
          /\ caller' = caller
          /\ selector' = selector /\ responses' = responses /\ qtodo' = qtodo
          /\ pc' # "idle" => (taken' + todo' = taken + todo /\ taken' >= taken)
     /\ (pc \in {"query", "recv"}) =>
          /\ pc' \in {"query", "recv", "idle"}
          /\ rtVars' = rtVars
          /\ left' = left /\ caller' = caller
     /\ (pc' \in {"query", "recv"} /\ pc \notin {"query", "recv"}) => pc = "idle"
     /\ (pc' = "update" /\ taken' = 0 /\ pc # "new") =>
          (pc = "idle" \/ (pc = "update" /\ taken = 0))
    ]_vars

\* C15: a batch of config_checker has applied its first diff and has one more to
\* apply, the maps hold what the first diff wrote
C15_Witness ==
  /\ caller = "config_checker" /\ pc = "update"
  /\ taken >= 1 /\ todo >= 1
  /\ diff.kind = "AddStorage" /\ Registered(storages, diff.volume, diff.name)

\* C16: when the configuration goes from A to B and back to A and both batches
\* succeed, the volume names and the storage names per volume registered at the end
\* are those registered at the start
C16_RoundTripRestoresNames ==
  (pc = "idle" /\ caller = "config_checker" /\ plan = <<>> /\ base # {})
    => base = {Names(volumes, storages)}

\* C17: spawn_volume by the name of a backend for which no library is found fails
\* with an error that names the file looked for, leaves the volumes map as it was and
\* creates no backend, the memory backend included
C17_ByNameNoLibraryFails ==
  [][(/\ Applies("AddVolume")
      /\ diff'.volume # MEMORY_BACKEND_NAME
      /\ backend_search_method(diff'.config) = "ByName"
      /\ search_and_load(BACKEND_LIB_PREFIX \o diff'.config.backend) = "none")
       => (/\ result' = "Failed to find a suitable library (was looking for <lib>"
                        \o "zbackend_" \o diff'.config.backend \o ")"
           /\ volumes' = volumes
           /\ handles' = handles)]_vars

\* C17: update has returned the error of an AddVolume by the name of a backend that
\* has no library, and the volume is not registered
C17_Witness ==
  /\ pc = "idle"
  /\ diff.kind = "AddVolume"
  /\ diff.config.backend = "missing"
  /\ result # "Ok"
  /\ diff.volume \notin DOMAIN volumes
  /\ \A v \in DOMAIN volumes : volumes[v].lib = "none" => v = MEMORY_BACKEND_NAME

\* the handle instances the volumes map holds
RegisteredHandles == {volumes[v].id : v \in DOMAIN volumes}

\* C18: the stopper of a VolumeHandle is true as long as the handle is in the volumes
\* map and false from its drop on; the drop stores false in the stopper first, then
\* destroys the backend, then unloads the library: a handle whose stopper is true has
\* its backend, and no backend is alive once its library is unloaded
C18_StopperBackendLibraryOrder ==
  \A i \in DOMAIN handles :
    /\ handles[i].stopper <=> i \in RegisteredHandles
    /\ handles[i].stopper => handles[i].backend
    /\ handles[i].backend => handles[i].lib # "unloaded"

\* C18: the drop of a handle made from a library has destroyed the backend and has
\* not yet unloaded the library, while another handle is registered
C18_Witness ==
  /\ \E i \in DOMAIN handles :
       ~handles[i].stopper /\ ~handles[i].backend /\ handles[i].lib = "loaded"
  /\ RegisteredHandles # {}

\* C19: whenever spawn_volume returns an error the volumes map is as it was before
\* the call, and no handle has been created or dropped
C19_SpawnVolumeErrorLeavesVolumes ==
  [][(Applies("AddVolume") /\ result' # "Ok")
       => (volumes' = volumes /\ handles' = handles)]_vars

\* C20: no two responses of a query carry the same key, whatever the runtime state
\* the query reads
C20_OneResponsePerKey ==
  \A r1, r2 \in responses : r1.key = r2.key => r1 = r2

\* C20, amended: a query holds at most one response per volume key and at most one
\* per registered (volume, storage name); two responses carry the same key only when
\* they are the statuses of two storages of one name registered under two volumes
C20_OneResponsePerEntry ==
  \A r1, r2 \in responses :
    (r1.key = r2.key /\ r1 # r2) =>
      /\ r1.from # 0 /\ r2.from # 0 /\ r1.from # r2.from
      /\ workers[r1.from].name = workers[r2.from].name
      /\ workers[r1.from].volume # workers[r2.from].volume
      /\ r1.key = "/storages/" \o workers[r1.from].name

\* C20: a query has visited every storage and holds the statuses of two storages of
\* one name registered under two volumes, next to the responses of the volumes
C20_Witness ==
  /\ pc = "query" /\ qtodo = {}
  /\ \E r1, r2 \in responses : r1.key = r2.key /\ r1.from # r2.from
  /\ \E r \in responses : r.from = 0 /\ r.value = "admin_status"

============================================================================
